---- MODULE Spec2Model ----
(***************************************************************************)
(* Atmospheric entry and breakup kernel of the impact visualizer:          *)
(* calculateEntryConditions, calculateBodyProperties, integrateTrajectory, *)
(* estimateBlastEffects and assessNEOImpact, in the two variants found in  *)
(* the repository (src/unnamed/part_005 and                                *)
(* src/src/services/neoEntryImpact.js).                                    *)
(*                                                                         *)
(* The JavaScript code computes in IEEE doubles; the model computes in     *)
(* fixed point.  Units: time in centiseconds, altitude in centimetres,     *)
(* speed in cm/s, mass in kg, area in dm^2, air density in mg/m^3,         *)
(* pressure in Pa, energy in tons of TNT (1e-6 Mt), blast radii in metres, *)
(* accelerations in cm/s^2, sines in 1/1000.                               *)
(***************************************************************************)
EXTENDS Integers, Sequences, FiniteSets, TLC

\* ------------------------------------------------------------------------
\* Fixed-point arithmetic
\* ------------------------------------------------------------------------

\* Largest value of the model's integers (2^31 - 1).
MaxInt == 1073741823 + 1073741824

Min(a, b) == IF a < b THEN a ELSE b

Max(a, b) == IF a > b THEN a ELSE b

\* a * b does not overflow (a, b >= 0).
Fits(a, b) == b = 0 \/ a <= MaxInt \div b

Pow2(s) == 2 ^ s

\* The number of binary digits of x >= 0 (0 for x = 0).
Bits(x) == Cardinality({k \in 0..30 : x >= Pow2(k)})

\* A quotient Q held in units of 2^e, as an integer; one that does not fit
\* saturates at MaxInt.
Scaled(Q, e) ==
  IF e >= 0
  THEN IF e <= 30 /\ Fits(Q, Pow2(e)) THEN Q * Pow2(e) ELSE MaxInt
  ELSE Q \div Pow2(0 - e)

\* The binary digits cut from a factor of ba digits whose cofactor has bb,
\* so that the product keeps 31: the longer factor gives up digits first,
\* down to 16.
CutOf(ba, bb) ==
  IF ba >= bb THEN Min(ba + bb - 31, Max(0, ba - 16))
  ELSE (ba + bb - 31) - Min(ba + bb - 31, Max(0, bb - 16))

\* floor(a * b / c) with a cut by i digits, b by j and c by u.
MulDivCut(a, b, c, i, j, u) ==
  Scaled(((a \div Pow2(i)) * (b \div Pow2(j))) \div (c \div Pow2(u)), i + j - u)

\* floor(a * b / c) when a * b does not fit: a and b are cut to 31 binary
\* digits in all and c to 16, and the quotient is scaled back.
MulDivWide(a, b, c) ==
  MulDivCut(a, b, c, CutOf(Bits(a), Bits(b)),
            (Bits(a) + Bits(b) - 31) - CutOf(Bits(a), Bits(b)),
            Max(0, Bits(c) - 16))

\* floor(a * b / c) for a, b >= 0 and c > 0, as a double would give it to
\* about four digits: exact when a * b fits.
MulDiv(a, b, c) ==
  IF Fits(a, b) THEN (a * b) \div c ELSE MulDivWide(a, b, c)

\* floor(sqrt(n)) by bisection on [lo, hi] (a function, so that its
\* arguments are values).
SqrtIn[n \in Int, lo \in Int, hi \in Int] ==
  IF lo >= hi THEN lo
  ELSE LET mid == (lo + hi + 1) \div 2
       IN  IF mid * mid <= n THEN SqrtIn[n, mid, hi] ELSE SqrtIn[n, lo, mid - 1]

Isqrt(n) == SqrtIn[n, 0, 46340]

\* exp(-x) as a fraction of 2^30, x given in 1/1000: exp(-x) = 2^(-x/ln 2),
\* the fractional power of two by a quadratic fit (within 0.5 percent).
ExpNeg30(x1000) ==
  LET k    == x1000 \div 693
      f    == ((x1000 % 693) * 1000) \div 693
      frac == 1000000 - 660 * f + (160 * f * f) \div 1000
  IN  IF k > 30 THEN 0 ELSE MulDiv(Pow2(30) \div Pow2(k), frac, 1000000)

\* ------------------------------------------------------------------------
\* Constants of the kernel, in the model's units
\* ------------------------------------------------------------------------

\* Earth's escape velocity at the surface, 11.2 km/s, in m/s.
V_ESCAPE_EARTH == 11200

\* Standard gravity, 9.81 m/s^2, in cm/s^2.
GRAVITY == 981

\* Sea-level atmospheric density, 1.225 kg/m^3, in mg/m^3.
RHO_0 == 1225000

\* Atmospheric scale height, in m.
SCALE_HEIGHT == 7200

\* Drag coefficient 1.0, in 1/1000.
C_D == 1000

\* Heat transfer coefficient LAMBDA = 0.7, in 1/10 (LAMBDA is a TLA+ keyword).
LAMBDA_ == 7

\* Effective heat of ablation, J/kg.
Q_ABLATION == 8000000

\* Top of the atmosphere, 100 km, in cm.
H_ENTRY == 10000000

\* options.dt || 0.05: the default time step, in cs.
DEFAULT_DT == 5

\* options.fragmentationMultiplier || 3.
DEFAULT_FRAG_MULT == 3

\* The two variants of the kernel in the repository.
Part005 == "src/unnamed/part_005"

Services == "src/src/services/neoEntryImpact.js"

Variants == {Part005, Services}

\* null, and a value that is set.
Null == << >>

Some(x) == <<x>>

Val(o) == o[1]

\* ------------------------------------------------------------------------
\* Inputs
\* ------------------------------------------------------------------------

\* Diameters of the bodies tried, in m: 2 and the multiples of 25 up to
\* 25 * MaxDiameterSteps (bound of the model).
MaxDiameterSteps == 2

Diameters == {2} \cup {25 * k : k \in 1..MaxDiameterSteps}

\* The material objects the callers build from a density (kg/m^3), with
\* their strengths (Pa): rocky, metallic and cometary.
Materials ==
  { [name |-> "Rocky",          density |-> 3000, strength |-> 200000],
    [name |-> "Metallic",       density |-> 7800, strength |-> 2000000],
    [name |-> "Cometary (ice)", density |-> 800,  strength |-> 100000] }

\* A material object of the caller's own, without a name: a weak rubble.
CustomMaterial == [name |-> "", density |-> 2000, strength |-> 5000]

\* Hyperbolic excess speeds tried, in m/s (the code takes km/s).
VInfinitys == {0, 2900, 3000, 15000, 20000}

\* Entry angles tried, in degrees from the horizontal, all in (0, 90].
EntryAngles == {1, 45, 90}

\* options.dt tried, in cs; 0 stands for an absent option.
DtOptions == {0, 50, 200, 490}

\* Math.sin(toRadians(deg)) in 1/1000, for the angles tried.
SinMilli(deg) ==
  CASE deg = 1 -> 17 [] deg = 5 -> 87 [] deg = 10 -> 174 [] deg = 18 -> 309
    [] deg = 30 -> 500
    [] deg = 45 -> 707 [] deg = 60 -> 866 [] deg = 90 -> 1000

\* ------------------------------------------------------------------------
\* Atmosphere, entry conditions and body
\* ------------------------------------------------------------------------

\* atmosphericDensity(altitude), altitude in cm, density in mg/m^3.
atmosphericDensity(altitude) ==
  IF altitude < 0 THEN RHO_0
  ELSE MulDiv(ExpNeg30(MulDiv(altitude \div 100, 1000, SCALE_HEIGHT)),
              RHO_0, Pow2(30))

\* dynamicPressure(rho, velocity) = 0.5 * rho * v^2, in Pa.
dynamicPressure(rho, velocity) ==
  MulDiv(MulDiv(velocity, velocity, 10000), rho, 2000000)

\* The entry speed in cm/s for vInfinity in m/s.  part_005 passes speeds
\* below 3 km/s through; the services variant has the formula only.
EntryVelocity(var, vInfinity) ==
  IF var = Part005 /\ vInfinity < 3000
  THEN vInfinity * 100
  ELSE Isqrt(vInfinity * vInfinity + V_ESCAPE_EARTH * V_ESCAPE_EARTH) * 100

calculateEntryConditions(var, vInfinity, entryAngleDeg) ==
  [ velocity  |-> EntryVelocity(var, vInfinity),
    vInfinity |-> vInfinity,
    angle     |-> entryAngleDeg ]

\* calculateBodyProperties(diameter, material): area = pi r^2 in dm^2,
\* volume = (4/3) pi r^3 (here in litres), mass = density * volume in kg.
calculateBodyProperties(diameter, material) ==
  LET area   == (7854 * diameter * diameter) \div 100
      volume == MulDiv(diameter * diameter * diameter, 523599, 1000)
      mass   == MulDiv(volume, material.density, 1000)
  IN  [ diameter |-> diameter,
        mass     |-> mass,
        area     |-> area,
        density  |-> material.density,
        strength |-> material.strength,
        material |-> IF material.name = "" THEN "custom" ELSE material.name ]

\* 0.5 * m * v^2 / 4.184e15 megatons, in tons of TNT (m in kg, v in cm/s).
\* The double is positive whenever m and v are: an energy below one ton is
\* held as 1, so that its sign is the double's.
KineticEnergy(mass, velocity) ==
  IF mass > 0 /\ velocity > 0
  THEN Max(1, MulDiv(mass, MulDiv(velocity, velocity, 10000) \div 8,
                     1046000000))
  ELSE 0

\* ------------------------------------------------------------------------
\* State
\* ------------------------------------------------------------------------

VARIABLES
  variant,           \* which of the two source files runs
  params,            \* the arguments of the call
  pc,                \* where the call is
  entry, body,       \* assessNEOImpact: entry conditions, body properties
  dt,                \* integrateTrajectory: the time step in use
  t, h, v, m, A,     \* integrateTrajectory: time, altitude, speed, mass, area
  fragmented, airburstAltitude, airburstEnergy,
  stepCount,
  iterations,        \* history: loop iterations begun
  breakupVelocity,   \* history: the speed at the start of the breakup step
  terminal,          \* history: the last step took the terminal-velocity branch
  impact,            \* the ImpactSummary, once integrateTrajectory returned
  blast, outcome,    \* assessNEOImpact's results
  calls,             \* history: calls of assessNEOImpact begun
  firstImpact,       \* history: the ImpactSummary of the call before
  quake,             \* findSimilarEarthquakes: requests, replies, promise
  view,              \* the MapImpact component: props, state, effects
  trajectory         \* integrateTrajectory: the samples recorded

vars == << variant, params, pc, entry, body, dt, t, h, v, m, A, fragmented,
           airburstAltitude, airburstEnergy, stepCount, iterations,
           breakupVelocity, terminal, impact, blast, outcome, calls, firstImpact, quake,
           view, trajectory >>

callVars == << calls, firstImpact, quake, view, trajectory >>

kernelVars == << entry, body, dt, t, h, v, m, A, fragmented,
                 airburstAltitude, airburstEnergy, stepCount, iterations,
                 breakupVelocity, terminal >>

\* MIN_VELOCITY: 500 m/s in part_005, 300 m/s in the services variant.
MIN_VELOCITY == IF variant = Part005 THEN 50000 ELSE 30000

\* The flight-time cutoff: 1800 s in part_005, 300 s in the services variant.
MaxFlightTime == IF variant = Part005 THEN 180000 ELSE 30000

initialVelocity == entry.velocity

sinGamma == SinMilli(entry.angle)

\* ------------------------------------------------------------------------
\* integrateTrajectory: the pieces of one loop iteration
\* ------------------------------------------------------------------------

\* The while condition.
LoopCondition ==
  IF variant = Part005 THEN h > 0 ELSE h > 0 /\ v > MIN_VELOCITY

\* The breakup test without its !fragmented.
BreakupConditionRepeated(q) ==
  IF variant = Part005
  THEN v > 100000 /\ initialVelocity > 100000 /\ q >= body.strength
  ELSE q >= body.strength

\* The breakup test at the top of the iteration; q is the dynamic pressure.
BreakupCondition(q) ==
  IF variant = Part005
  THEN ~fragmented /\ v > 100000 /\ initialVelocity > 100000
                   /\ q >= body.strength
  ELSE ~fragmented /\ q >= body.strength

\* What airburstEnergy becomes at breakup, for the energy at breakup in
\* tons: part_005 records it only above 0.00001 Mt = 10 t.
RecordedEnergy(energyAtBreakup) ==
  IF variant = Part005
  THEN IF energyAtBreakup > 10 THEN Some(energyAtBreakup) ELSE Null
  ELSE Some(energyAtBreakup)

\* -dragAccel = (Cd * A / (2 m)) * rho * v^2 = Cd * A * q / m, in cm/s^2.
DragDecel(q, area, mass) == MulDiv(MulDiv(q, area, mass), C_D, 1000)

\* -gravAccel = GRAVITY * sin(gamma), in cm/s^2.
GravDecel == (GRAVITY * sinGamma) \div 1000

\* -totalAccel * dt, the speed lost in one step, in cm/s.
SpeedLoss(q, area, mass) ==
  LET drag == DragDecel(q, area, mass)
  IN  MulDiv(Min(drag, MaxInt - GravDecel) + GravDecel, dt, 100)

\* -dmdt * dt = (lambda * A / (2 Q)) * rho * v^3 * dt
\*            = lambda * A * q * v * dt / Q, in kg.
MassLoss(q, area, speed) ==
  MulDiv(MulDiv(MulDiv(q, speed, 10000000), LAMBDA_ * dt,
                Q_ABLATION \div 10000),
         area, 10000)

\* Ablation with the sign of dmdt lost: the mass grows.
AblatedMassSignError(mass, loss) == Max(0, mass + Min(loss, MaxInt - mass))

\* Math.max(0, m + dmdt * dt).
AblatedMass(mass, loss) == Max(0, mass - loss)

\* The test of the terminal-velocity branch of part_005.
TerminalBranch(vNew, rho, mass) ==
  vNew < MIN_VELOCITY /\ rho > 0 /\ mass > 0

\* v_terminal without the cap of 200 m/s.
TerminalVelocityUncapped(mass, rho, area) ==
  Isqrt(Min(MulDiv(MulDiv(MulDiv(mass, 2 * GRAVITY, area), 1000, C_D),
                   1000000, rho), 200000)) * 100

\* Math.min(v_terminal, 200) with v_terminal = sqrt(2 m g / (rho Cd A)),
\* in cm/s.
TerminalVelocity(mass, rho, area) ==
  LET vt2 == MulDiv(MulDiv(MulDiv(mass, 2 * GRAVITY, area), 1000, C_D),
                    1000000, rho)
  IN  IF vt2 >= 40000 THEN 20000 ELSE Min(Isqrt(vt2 * 10000), 20000)

\* v * sin(gamma) * dt, the altitude lost in one step at speed speed >= 0.
Descent(speed) == MulDiv(MulDiv(speed, sinGamma, 1000), dt, 100)

\* The speed after the step in part_005: the Euler update v_new, replaced by
\* the capped terminal velocity when v_new < MIN_VELOCITY.
UpdatedVelocity(vNew, rho, mass, area) ==
  IF TerminalBranch(vNew, rho, mass)
  THEN TerminalVelocity(mass, rho, area)
  ELSE Max(0, vNew)

\* Ablation at every speed.
UpdatedMassAlways(q, area) == AblatedMass(m, MassLoss(q, area, v))

\* The mass after the step in part_005: ablation only above 3000 m/s.
UpdatedMass(q, area) ==
  IF v > 300000 THEN AblatedMass(m, MassLoss(q, area, v)) ELSE m

\* The mass after the break tests of part_005 ("reset to initial mass").
SettledMass(mass) ==
  IF mass <= 0 /\ initialVelocity <= 300000 THEN body.mass ELSE mass

\* A loop without the safety check.
CutOffNever(time) == FALSE

\* The safety check at the end of an iteration: if (t > cutoff) break.
CutOff(time) == time > MaxFlightTime

\* The altitude recorded after the step's update instead.
BreakupAltitudeAfter(hBefore, hAfter) == hAfter

\* airburstAltitude = h at breakup: the altitude before the step's update.
BreakupAltitude(hBefore, hAfter) == hBefore

\* The loop is left by the "completely ablated" break.
AblationBreak(mass) ==
  IF variant = Part005 THEN mass <= 0 /\ initialVelocity > 300000
  ELSE mass <= 0

\* ------------------------------------------------------------------------
\* The call
\* ------------------------------------------------------------------------

\* The calls tried.  The default step of 0.05 s is tried on the steep, fast
\* entries, which it ends within a few hundred steps, the step of 0.5 s on
\* the grazing entry of the 25 m comet, which it follows below 3 km/s, and
\* the custom material on the smallest body.
Params ==
  { p \in [ vInfinity : VInfinitys, diameter : Diameters,
            material : Materials \cup {CustomMaterial},
            entryAngle : EntryAngles, dt : DtOptions ] :
      /\ p.dt = 0 => p.vInfinity >= 15000 /\ p.entryAngle >= 45
                                         /\ p.diameter >= 10
      /\ p.dt = 50 => /\ p.vInfinity \in {2900, 3000} /\ p.entryAngle = 1
                      /\ p.diameter = 25 /\ p.material.density = 800
      /\ p.material = CustomMaterial => p.diameter = 2 /\ p.dt # 0 }

Init ==
  /\ variant \in Variants
  /\ params \in Params
  /\ pc = "call"
  /\ entry = Null /\ body = Null
  /\ dt = 0 /\ t = 0 /\ h = 0 /\ v = 0 /\ m = 0 /\ A = 0
  /\ fragmented = FALSE
  /\ airburstAltitude = Null /\ airburstEnergy = Null
  /\ stepCount = 0 /\ iterations = 0 /\ breakupVelocity = Null /\ terminal = FALSE
  /\ impact = Null /\ blast = Null /\ outcome = Null
  /\ trajectory = << >>
  /\ calls = 1 /\ firstImpact = Null /\ quake = Null /\ view = Null

\* options.recordTrajectory || false.
RecordTrajectory ==
  "recordTrajectory" \in DOMAIN params /\ params.recordTrajectory

\* options.recordInterval || 10.
RecordInterval ==
  IF params.recordInterval = 0 THEN 10 ELSE params.recordInterval

\* The object pushed to trajectory: the state, with the pressure and the
\* density given (the angle in degrees).
Sample(time, altitude, velocity, mass, angle, q, rho, broken) ==
  [ time |-> time, altitude |-> altitude, velocity |-> velocity,
    mass |-> mass, angle |-> angle, q |-> q, rho |-> rho,
    fragmented |-> broken ]

\* The samples after a loop iteration that was not left by the ablation
\* break: the state is pushed when stepCount is a multiple of the interval.
Recorded(samples, count, sample) ==
  IF RecordTrajectory /\ count % RecordInterval = 0
  THEN Append(samples, sample)
  ELSE samples

\* A fragmentation flag kept from the call before, as a variable of the
\* module would be.
StaleFragmented == fragmented

\* let fragmented = false: the flag is a local of each call.
InitialFragmented == FALSE

\* assessNEOImpact up to the call of integrateTrajectory, and
\* integrateTrajectory up to its loop.
Begin ==
  /\ pc = "call"
  /\ UNCHANGED << calls, firstImpact, quake, view >>
  /\ LET e == calculateEntryConditions(variant, params.vInfinity,
                                       params.entryAngle)
         b == calculateBodyProperties(params.diameter, params.material)
     IN  /\ entry' = e
         /\ body' = b
         /\ dt' = IF params.dt = 0 THEN DEFAULT_DT ELSE params.dt
         /\ t' = 0
         /\ h' = H_ENTRY
         /\ v' = e.velocity
         /\ m' = b.mass
         /\ A' = b.area
  /\ fragmented' = InitialFragmented
  /\ airburstAltitude' = Null
  /\ airburstEnergy' = Null
  /\ stepCount' = 0
  /\ iterations' = 0
  /\ breakupVelocity' = Null
  /\ terminal' = FALSE
  /\ pc' = "loop"
  /\ trajectory' =
       IF RecordTrajectory
       THEN << Sample(t', h', v', m', entry'.angle,
                      dynamicPressure(atmosphericDensity(h'), v'),
                      atmosphericDensity(h'), FALSE) >>
       ELSE << >>
  /\ UNCHANGED << variant, params, impact, blast, outcome >>

\* One iteration of the loop of part_005.
StepPart005 ==
  LET rho    == atmosphericDensity(h)
      q      == dynamicPressure(rho, v)
      breaks == BreakupCondition(q)
      A1     == IF breaks THEN A * DEFAULT_FRAG_MULT ELSE A
      m1     == UpdatedMass(q, A1)
      vNew   == v - SpeedLoss(q, A1, m)
      v1     == UpdatedVelocity(vNew, rho, m1, A1)
      h1     == h - Descent(v1)
      t1     == t + dt
      ablated == AblationBreak(m1)
  IN  /\ fragmented' = (fragmented \/ breaks)
      /\ airburstAltitude' = IF breaks THEN Some(BreakupAltitude(h, h1))
                                       ELSE airburstAltitude
      /\ airburstEnergy' = IF breaks THEN RecordedEnergy(KineticEnergy(m, v))
                                     ELSE airburstEnergy
      /\ breakupVelocity' = IF breaks THEN Some(v) ELSE breakupVelocity
      /\ terminal' = TerminalBranch(vNew, rho, m1)
      /\ A' = A1
      /\ v' = v1
      /\ h' = h1
      /\ t' = t1
      /\ m' = IF ablated THEN 0 ELSE SettledMass(m1)
      /\ stepCount' = IF ablated THEN stepCount ELSE stepCount + 1
      /\ pc' = IF ablated \/ CutOff(t1) THEN "left" ELSE "loop"

\* One iteration of the loop of the services variant.
StepServices ==
  LET rho    == atmosphericDensity(h)
      q      == dynamicPressure(rho, v)
      breaks == BreakupCondition(q)
      A1     == IF breaks THEN A * DEFAULT_FRAG_MULT ELSE A
      loss   == MassLoss(q, A1, v)
      vNew   == v - SpeedLoss(q, A1, m)
      h1     == IF vNew >= 0 THEN h - Descent(vNew)
                ELSE h + Min(Descent(0 - vNew), MaxInt - h)
      m1     == AblatedMass(m, loss)
      t1     == t + dt
      ablated == AblationBreak(m1)
  IN  /\ fragmented' = (fragmented \/ breaks)
      /\ airburstAltitude' = IF breaks THEN Some(BreakupAltitude(h, h1))
                                       ELSE airburstAltitude
      /\ airburstEnergy' = IF breaks THEN RecordedEnergy(KineticEnergy(m, v))
                                     ELSE airburstEnergy
      /\ breakupVelocity' = IF breaks THEN Some(v) ELSE breakupVelocity
      /\ terminal' = FALSE
      /\ A' = A1
      /\ v' = Max(0, vNew)
      /\ h' = h1
      /\ t' = t1
      /\ m' = IF ablated THEN 0 ELSE m1
      /\ stepCount' = IF ablated THEN stepCount ELSE stepCount + 1
      /\ pc' = IF ablated \/ CutOff(t1) THEN "left" ELSE "loop"

\* One iteration of the integration loop, to its end or to a break.
Step ==
  /\ pc = "loop"
  /\ UNCHANGED << calls, firstImpact, quake, view >>
  /\ LoopCondition
  /\ IF variant = Part005 THEN StepPart005 ELSE StepServices
  /\ iterations' = iterations + 1
  /\ trajectory' =
       IF stepCount' = stepCount
       THEN trajectory
       ELSE Recorded(trajectory, stepCount,
                     Sample(t', h', v', m', entry.angle,
                            dynamicPressure(atmosphericDensity(h), v),
                            atmosphericDensity(h), fragmented'))
  /\ UNCHANGED << variant, params, entry, body, dt, impact, blast, outcome >>

\* impact.airburst without the test of the recorded energy.
IsAirburstLoose == fragmented /\ h > 0

\* impact.airburst without the test of the final altitude.
IsAirburstAtAnyAltitude ==
  fragmented /\ airburstEnergy # Null /\ Val(airburstEnergy) > 0

\* impact.airburst of the returned summary.
IsAirburst ==
  IF variant = Part005
  THEN fragmented /\ h > 0 /\ airburstEnergy # Null /\ Val(airburstEnergy) > 0
  ELSE fragmented /\ h > 0

\* A ground impact whenever mass is left.
IsGroundImpactWithMass == m > 0

\* impact.groundImpact of the returned summary.
IsGroundImpact == h <= 0

\* The ImpactSummary built when the loop has been left; massFraction in
\* 1/1000000.
ImpactSummary ==
  [ altitude         |-> h,
    velocity         |-> v,
    mass             |-> m,
    massFraction     |-> MulDiv(m, 1000000, body.mass),
    airburst         |-> IsAirburst,
    airburstAltitude |-> airburstAltitude,
    airburstEnergy   |-> airburstEnergy,
    groundImpact     |-> IsGroundImpact,
    impactEnergy     |-> KineticEnergy(m, v) ]

\* integrateTrajectory after its loop: the loop condition failed or a break
\* was taken; the summary is returned.
Finalize ==
  /\ UNCHANGED << calls, firstImpact, quake, view >>
  /\ \/ pc = "left"
     \/ pc = "loop" /\ ~LoopCondition
  /\ impact' = ImpactSummary
  /\ trajectory' =
       IF RecordTrajectory
       THEN Append(trajectory,
                   Sample(t, h, v, m, entry.angle,
                          dynamicPressure(atmosphericDensity(h), v),
                          atmosphericDensity(h), fragmented))
       ELSE trajectory
  /\ pc' = "returned"
  /\ UNCHANGED << variant, params, blast, outcome >>
  /\ UNCHANGED kernelVars

\* ------------------------------------------------------------------------
\* estimateBlastEffects
\* ------------------------------------------------------------------------

\* floor(cbrt(n)) by bisection on [lo, hi].
CbrtIn[n \in Int, lo \in Int, hi \in Int] ==
  IF lo >= hi THEN lo
  ELSE LET mid == (lo + hi + 1) \div 2
       IN  IF mid * mid * mid <= n THEN CbrtIn[n, mid, hi]
                                   ELSE CbrtIn[n, lo, mid - 1]

Icbrt(n) == CbrtIn[n, 0, 1290]

\* floor(x^0.4) by bisection on [lo, hi]: r^2.5 = r^2 * sqrt(r) <= x.
Pow04In[x \in Int, lo \in Int, hi \in Int] ==
  IF lo >= hi THEN lo
  ELSE LET mid == (lo + hi + 1) \div 2
       IN  IF MulDiv(mid * mid, Isqrt(mid * 10000), 100) <= x
           THEN Pow04In[x, mid, hi]
           ELSE Pow04In[x, lo, mid - 1]

Pow04(x) == Pow04In[x, 0, 5400]

\* Math.pow(E_kt, 1/3) in 1/1000, for the energy in tons (E_kt = tons/1000).
YieldScale(tons) ==
  IF tons <= 2147 THEN Icbrt(tons * 1000000)
  ELSE IF tons <= 2147483 THEN Icbrt(tons * 1000) * 10
  ELSE Icbrt(tons) * 100

\* rangeForOverpressure(p_target) of estimateBlastEffects(energy, altitude):
\* the radius in m (the code returns km) at which a burst of `energy` tons
\* at `altitude` cm gives the overpressure pTarget Pa.  With ys = E_kt^(1/3)
\* and a = 1 + altitude/6789,
\*   r_term = 3.14e11 / (p_1kt * alt_factor) - 2.5e5
\*          = (3.14e11 / pTarget) * (ys / a)^2 - 2.5e5,
\* and the radius is r_term^(1/2.5) * ys.  A r_term beyond MaxInt is held in
\* units of 2^15, whose power 0.4 is 2^6.
rangeForOverpressure(pTarget, energy, altitude) ==
  IF pTarget <= 0 THEN 0
  ELSE
    LET ys == YieldScale(energy)
        a  == 1000 + MulDiv(altitude \div 100, 1000, 6789)
        G  == MulDiv(314000000, 1000, pTarget)
        U  == MulDiv(G, ys, a)
        T  == IF U < MaxInt THEN MulDiv(U, ys, a) ELSE MaxInt
        T15 == MulDiv(MulDiv(G \div 32, ys, a), ys, a * 1024)
        r1kt == IF T < MaxInt THEN Pow04(T - 250000) ELSE 64 * Pow04(T15 - 8)
    IN  IF T < MaxInt /\ T - 250000 <= 0 THEN 10
        ELSE MulDiv(r1kt, ys, 1000)

\* The overpressure of window breakage: 2 kPa in part_005, 1 kPa in the
\* services variant.
WindowOverpressure(var) == IF var = Part005 THEN 2000 ELSE 1000

\* exp(-((h_km - 25) / 8)^0.6) as a fraction of 2^30, for a burst altitude
\* in m above 25 km.
Attenuation(altM) ==
  LET x1000 == (altM - 25000) \div 8
      y1000 == IF x1000 = 0 THEN 0
               ELSE MulDiv(x1000, 1014, Pow04(x1000 * 32768))
  IN  ExpNeg30(y1000)

\* radius *= attenuation when the burst is above H_REF = 25 km.
Attenuated(radius, altitude) ==
  IF altitude \div 100 > 25000
  THEN MulDiv(radius, Attenuation(altitude \div 100), Pow2(30))
  ELSE radius

\* A window radius left without its cap.
Uncapped(radius) == radius

\* if (radiusWindowBreak > CAP) radiusWindowBreak = CAP, CAP = 300 km.
Capped(radius) == IF radius > 300000 THEN 300000 ELSE radius

\* A classification that tests 'major' before 'catastrophic'.
SeverityMajorFirst(radiusWindowBreak, radiusStructuralDamage, radiusSevereDestruction) ==
  IF radiusSevereDestruction > 3000 THEN "major"
  ELSE IF radiusSevereDestruction > 10000 THEN "catastrophic"
  ELSE IF radiusStructuralDamage > 10000 THEN "significant"
  ELSE IF radiusWindowBreak > 20000 THEN "moderate"
  ELSE "minor"

\* The severity classification from the final radii (in m).
Severity(radiusWindowBreak, radiusStructuralDamage, radiusSevereDestruction) ==
  IF radiusSevereDestruction > 10000 THEN "catastrophic"
  ELSE IF radiusSevereDestruction > 3000 THEN "major"
  ELSE IF radiusStructuralDamage > 10000 THEN "significant"
  ELSE IF radiusWindowBreak > 20000 THEN "moderate"
  ELSE "minor"

\* The early return for energy <= 0 or altitude <= 0; it has no
\* radiusExtreme field.
NoBlast(energy, altitude) ==
  [ energy                  |-> energy,
    altitude                |-> altitude,
    radiusWindowBreak       |-> 0,
    radiusStructuralDamage  |-> 0,
    radiusSevereDestruction |-> 0,
    severity                |-> "none" ]

estimateBlastEffects(var, energy, altitude) ==
  IF energy <= 0 \/ altitude <= 0 THEN NoBlast(energy, altitude)
  ELSE
    LET rw == Capped(Attenuated(
                rangeForOverpressure(WindowOverpressure(var), energy, altitude),
                altitude))
        rs == Attenuated(rangeForOverpressure(20000, energy, altitude), altitude)
        rd == Attenuated(rangeForOverpressure(35000, energy, altitude), altitude)
        rx == Attenuated(rangeForOverpressure(100000, energy, altitude), altitude)
    IN  [ energy                  |-> energy,
          altitude                |-> altitude,
          radiusWindowBreak       |-> rw,
          radiusStructuralDamage  |-> rs,
          radiusSevereDestruction |-> rd,
          radiusExtreme           |-> rx,
          severity                |-> Severity(rw, rs, rd) ]

\* ------------------------------------------------------------------------
\* assessNEOImpact after integrateTrajectory
\* ------------------------------------------------------------------------

\* JavaScript truthiness of a number or null.
Truthy(o) == o # Null /\ Val(o) # 0

\* blast estimated whenever an energy was recorded, airburst or not.
BlastWhenEnergySet(imp) ==
  IF Truthy(imp.airburstEnergy)
  THEN estimateBlastEffects(variant, Val(imp.airburstEnergy),
                            Val(imp.airburstAltitude))
  ELSE Null

\* blast: estimated only if impact.airburst && impact.airburstEnergy.
BlastOf(imp) ==
  IF imp.airburst /\ Truthy(imp.airburstEnergy)
  THEN estimateBlastEffects(variant, Val(imp.airburstEnergy),
                            Val(imp.airburstAltitude))
  ELSE Null

\* (x / 1000).toFixed(1) for an altitude in cm: tenths of a km.
KmToFixed1(altitude) == (altitude + 5000) \div 10000

\* x.toFixed(0) for a speed in cm/s: whole m/s.
SpeedToFixed0(velocity) == (velocity + 50) \div 100

\* (massFraction * 100).toFixed(1): tenths of a percent.
PercentToFixed1(massFraction) == (massFraction + 500) \div 1000

\* An outcome that tests the airburst before the ablation.
OutcomeAirburstFirst(imp) ==
  IF imp.airburst
  THEN << "Airburst at", KmToFixed1(Val(imp.airburstAltitude)),
          "km altitude" >>
  ELSE IF imp.mass = 0 THEN << "Complete ablation in atmosphere" >>
  ELSE IF imp.groundImpact
       THEN << "Ground impact at", SpeedToFixed0(imp.velocity), "m/s with",
               PercentToFixed1(imp.massFraction), "% of original mass" >>
  ELSE << "Decelerated to low velocity in atmosphere" >>

\* An outcome without the airburst case.
OutcomeWithoutAirburst(imp) ==
  IF imp.mass = 0 THEN << "Complete ablation in atmosphere" >>
  ELSE IF imp.groundImpact
       THEN << "Ground impact at", SpeedToFixed0(imp.velocity), "m/s with",
               PercentToFixed1(imp.massFraction), "% of original mass" >>
  ELSE << "Decelerated to low velocity in atmosphere" >>

\* outcome: the text and the numbers formatted into it.
OutcomeOf(imp) ==
  IF imp.mass = 0 THEN << "Complete ablation in atmosphere" >>
  ELSE IF imp.airburst
       THEN << "Airburst at", KmToFixed1(Val(imp.airburstAltitude)),
               "km altitude" >>
  ELSE IF imp.groundImpact
       THEN << "Ground impact at", SpeedToFixed0(imp.velocity), "m/s with",
               PercentToFixed1(imp.massFraction), "% of original mass" >>
  ELSE << "Decelerated to low velocity in atmosphere" >>

Assess ==
  /\ pc = "returned"
  /\ UNCHANGED callVars
  /\ blast' = BlastOf(impact)
  /\ outcome' = OutcomeOf(impact)
  /\ pc' = "done"
  /\ UNCHANGED << variant, params, impact >>
  /\ UNCHANGED kernelVars

Next == Begin \/ Step \/ Finalize \/ Assess

Spec == Init /\ [][Next]_vars

\* ------------------------------------------------------------------------
\* estimateBlastEffects on its own: the arguments are drawn in BlastInit
\* and ApplyBlast applies the function
\* ------------------------------------------------------------------------

\* Energies tried, in tons of TNT: none, negative, and from 1 t to 50 Mt.
BlastEnergies == {-1, 0, 1, 500, 15000, 500000, 10000000, 50000000}

\* Altitudes tried, in cm: below, at and above the ground, to 50 km.
BlastAltitudes ==
  {-100, 0, 100000, 500000, 1000000, 2500000, 3000000, 5000000}

BlastInit ==
  /\ variant \in Variants
  /\ params \in [ energy : BlastEnergies, altitude : BlastAltitudes ]
  /\ pc = "blast"
  /\ entry = Null /\ body = Null
  /\ dt = 0 /\ t = 0 /\ h = 0 /\ v = 0 /\ m = 0 /\ A = 0
  /\ fragmented = FALSE
  /\ airburstAltitude = Null /\ airburstEnergy = Null
  /\ stepCount = 0 /\ iterations = 0 /\ breakupVelocity = Null /\ terminal = FALSE
  /\ impact = Null /\ blast = Null /\ outcome = Null
  /\ trajectory = << >>
  /\ calls = 1 /\ firstImpact = Null /\ quake = Null /\ view = Null

ApplyBlast ==
  /\ pc = "blast"
  /\ UNCHANGED callVars
  /\ blast' = estimateBlastEffects(variant, params.energy, params.altitude)
  /\ pc' = "blasted"
  /\ UNCHANGED << variant, params, impact, outcome >>
  /\ UNCHANGED kernelVars

BlastNext == ApplyBlast

SpecBlast == BlastInit /\ [][BlastNext]_vars

\* ------------------------------------------------------------------------
\* calculateEntryConditions on its own: the arguments are drawn in
\* EntryInit and ApplyEntry applies the function
\* ------------------------------------------------------------------------

\* The default of the parameter entryAngleDeg, in degrees.
DEFAULT_ENTRY_ANGLE == 45

\* entryAngleDeg = 45: the argument, or the default when it is absent.
DefaultedAngle(o) == IF o = Null THEN DEFAULT_ENTRY_ANGLE ELSE Val(o)

\* Hyperbolic excess speeds tried, in m/s, on both sides of 3 km/s.
EntrySpeeds == {0, 1000, 2900, 2999, 3000, 3001, 5000, 15000, 20000}

\* Entry angles tried, in degrees; Null stands for an absent argument.
EntryAngleArgs == {Null, Some(1), Some(45), Some(90)}

EntryInit ==
  /\ variant \in Variants
  /\ params \in [ vInfinity : EntrySpeeds, entryAngleDeg : EntryAngleArgs ]
  /\ pc = "entry"
  /\ entry = Null /\ body = Null
  /\ dt = 0 /\ t = 0 /\ h = 0 /\ v = 0 /\ m = 0 /\ A = 0
  /\ fragmented = FALSE
  /\ airburstAltitude = Null /\ airburstEnergy = Null
  /\ stepCount = 0 /\ iterations = 0 /\ breakupVelocity = Null /\ terminal = FALSE
  /\ impact = Null /\ blast = Null /\ outcome = Null
  /\ trajectory = << >>
  /\ calls = 1 /\ firstImpact = Null /\ quake = Null /\ view = Null

ApplyEntry ==
  /\ pc = "entry"
  /\ UNCHANGED callVars
  /\ entry' = calculateEntryConditions(variant, params.vInfinity,
                                       DefaultedAngle(params.entryAngleDeg))
  /\ pc' = "entered"
  /\ UNCHANGED << variant, params, body, dt, t, h, v, m, A, fragmented,
                  airburstAltitude, airburstEnergy, stepCount, iterations,
                  breakupVelocity, terminal, impact, blast, outcome >>

EntryNext == ApplyEntry

SpecEntry == EntryInit /\ [][EntryNext]_vars

\* ------------------------------------------------------------------------
\* The body of assessNEOImpact's `material` argument: the argument is drawn
\* in BodyInit and ApplyBody applies the default and calculateBodyProperties
\* ------------------------------------------------------------------------

\* The preset names of the documentation.
PresetNames == {"stony", "iron", "comet"}

\* The `material` arguments tried: absent, a preset name, or an object.
MaterialArgs ==
  {[kind |-> "absent"]}
    \cup {[kind |-> "string", name |-> n] : n \in PresetNames}
    \cup {[kind |-> "object", object |-> o] :
            o \in Materials \cup {CustomMaterial}}

\* material = 'stony': the argument, or the default when it is absent.
DefaultedMaterial(arg) ==
  IF arg.kind = "absent" THEN [kind |-> "string", name |-> "stony"] ELSE arg

\* calculateBodyProperties(diameter, material) for the argument as
\* assessNEOImpact passes it on, each number boxed and Null standing for
\* undefined or NaN.  A string has no density, strength or name property:
\* they read as undefined, and the mass, undefined * volume, is NaN.
BodyOfArgument(diameter, arg) ==
  IF arg.kind = "object"
  THEN LET b == calculateBodyProperties(diameter, arg.object)
       IN  [ diameter |-> Some(b.diameter),
             mass     |-> Some(b.mass),
             area     |-> Some(b.area),
             density  |-> Some(b.density),
             strength |-> Some(b.strength),
             material |-> b.material ]
  ELSE [ diameter |-> Some(diameter),
         mass     |-> Null,
         area     |-> Some((7854 * diameter * diameter) \div 100),
         density  |-> Null,
         strength |-> Null,
         material |-> "custom" ]

\* Diameters tried, in m.
BodyDiameters == {1, 2, 10, 25, 50}

BodyInit ==
  /\ variant \in Variants
  /\ params \in [ diameter : BodyDiameters, material : MaterialArgs ]
  /\ pc = "body"
  /\ entry = Null /\ body = Null
  /\ dt = 0 /\ t = 0 /\ h = 0 /\ v = 0 /\ m = 0 /\ A = 0
  /\ fragmented = FALSE
  /\ airburstAltitude = Null /\ airburstEnergy = Null
  /\ stepCount = 0 /\ iterations = 0 /\ breakupVelocity = Null /\ terminal = FALSE
  /\ impact = Null /\ blast = Null /\ outcome = Null
  /\ trajectory = << >>
  /\ calls = 1 /\ firstImpact = Null /\ quake = Null /\ view = Null

ApplyBody ==
  /\ pc = "body"
  /\ UNCHANGED callVars
  /\ body' = BodyOfArgument(params.diameter,
                            DefaultedMaterial(params.material))
  /\ pc' = "bodied"
  /\ UNCHANGED << variant, params, entry, dt, t, h, v, m, A, fragmented,
                  airburstAltitude, airburstEnergy, stepCount, iterations,
                  breakupVelocity, terminal, impact, blast, outcome >>

BodyNext == ApplyBody

SpecBody == BodyInit /\ [][BodyNext]_vars

\* ------------------------------------------------------------------------
\* Two calls of assessNEOImpact with the same arguments, one after the other
\* ------------------------------------------------------------------------

\* The calls made twice: those with the coarse step.
TwiceParams == { p \in Params : p.dt = 490 }

TwiceInit ==
  /\ variant \in Variants
  /\ params \in TwiceParams
  /\ pc = "call"
  /\ entry = Null /\ body = Null
  /\ dt = 0 /\ t = 0 /\ h = 0 /\ v = 0 /\ m = 0 /\ A = 0
  /\ fragmented = FALSE
  /\ airburstAltitude = Null /\ airburstEnergy = Null
  /\ stepCount = 0 /\ iterations = 0 /\ breakupVelocity = Null /\ terminal = FALSE
  /\ impact = Null /\ blast = Null /\ outcome = Null
  /\ trajectory = << >>
  /\ calls = 1 /\ firstImpact = Null /\ quake = Null /\ view = Null

\* The caller keeps the first result and calls again with the same
\* arguments; the locals of the first call are gone with it.
CallAgain ==
  /\ pc = "done"
  /\ calls = 1
  /\ calls' = 2
  /\ firstImpact' = impact
  /\ impact' = Null /\ blast' = Null /\ outcome' = Null
  /\ pc' = "call"
  /\ UNCHANGED << variant, params, quake, view, trajectory >>
  /\ UNCHANGED kernelVars

TwiceNext == Begin \/ Step \/ Finalize \/ Assess \/ CallAgain

SpecTwice == TwiceInit /\ [][TwiceNext]_vars

\* ------------------------------------------------------------------------
\* findSimilarEarthquakes (src/src/services/earthquakeEnergyService.js)
\* Magnitudes in hundredths; an energy in joules is kept as the hundredths
\* of its decimal logarithm.
\* ------------------------------------------------------------------------

EarthquakeService == "src/src/services/earthquakeEnergyService.js"

DEFAULT_DELTA == 20

DEFAULT_LIMIT == 5

\* The arguments tried; a magnitude of Null is the null energyToMagnitude
\* returns.
QuakeArgs ==
  [ magnitude : { Null, Some(0), Some(30), Some(650), Some(950) },
    delta : { 15, DEFAULT_DELTA },
    limit : { 3, DEFAULT_LIMIT } ]

\* What fetch(url) settles to.
FetchOutcomes == { "rejected", "not ok", "ok" }

\* A feature of the reply: well formed, with a null mag, without properties.
Features ==
  { [ id |-> "us7000", properties |->
        Some([ place |-> "Chile", time |-> 1700, mag |-> Some(650),
               url |-> "event/us7000" ]) ],
    [ id |-> "ak0230", properties |->
        Some([ place |-> "Alaska", time |-> 1800, mag |-> Null,
               url |-> "event/ak0230" ]) ],
    [ id |-> "xx0000", properties |-> Null ] }

\* What res.json() settles to: a rejection, null, an object without
\* features, an object whose features is not an array, a feature collection.
Bodies ==
  { [ kind |-> k, features |-> << >> ] :
      k \in { "unparsable", "null", "no features", "features not array" } }
  \cup { [ kind |-> "collection", features |-> fs ] :
           fs \in { << >> } \cup { << f >> : f \in Features }
                            \cup { << f, g >> : f, g \in Features } }

Fulfilled(value) == [ state |-> "fulfilled", value |-> value ]

\* The error leaves the function: the promise rejects.
Uncaught(e) == [ state |-> "rejected", value |-> << e >> ]

\* catch (e) { return []; }
Caught(e) == Fulfilled(<< >>)

\* The request: minmagnitude, maxmagnitude and limit of the url.
QuakeUrl(magnitude, delta, limit) ==
  [ minmagnitude |-> Max(0, magnitude - delta),
    maxmagnitude |-> magnitude + delta,
    limit |-> limit ]

\* Math.pow(10, 1.5 * mag + 4.8), as the hundredths of its logarithm.
EnergyJoules(mag) == (3 * mag) \div 2 + 480

\* The callback of data.features.map, for a feature with properties.
QuakeEntry(f) ==
  [ id |-> f.id,
    place |-> Val(f.properties).place,
    time |-> Val(f.properties).time,
    magnitude |-> Val(f.properties).mag,
    url |-> Val(f.properties).url,
    energyJoules |-> IF Truthy(Val(f.properties).mag)
                     THEN Some(EnergyJoules(Val(Val(f.properties).mag)))
                     ELSE Null ]

MapThrows(fs) == \E i \in 1..Len(fs) : fs[i].properties = Null

\* The function after res.json() settled.
AfterBody(b) ==
  CASE b.kind = "unparsable" -> Caught("SyntaxError")
    [] b.kind = "null" -> Caught("TypeError")
    [] b.kind = "no features" -> Fulfilled(<< >>)
    [] b.kind = "features not array" -> Caught("TypeError")
    [] OTHER -> IF MapThrows(b.features)
                THEN Caught("TypeError")
                ELSE Fulfilled([ i \in 1..Len(b.features) |->
                                   QuakeEntry(b.features[i]) ])

QuakeInit ==
  /\ variant = EarthquakeService
  /\ params \in QuakeArgs
  /\ pc = "quake"
  /\ entry = Null /\ body = Null
  /\ dt = 0 /\ t = 0 /\ h = 0 /\ v = 0 /\ m = 0 /\ A = 0
  /\ fragmented = FALSE
  /\ airburstAltitude = Null /\ airburstEnergy = Null
  /\ stepCount = 0 /\ iterations = 0 /\ breakupVelocity = Null /\ terminal = FALSE
  /\ impact = Null /\ blast = Null /\ outcome = Null
  /\ trajectory = << >>
  /\ calls = 1 /\ firstImpact = Null
  /\ quake = [ requests |-> << >>, fetch |-> Null, body |-> Null,
               promise |-> Null ]
  /\ view = Null

quakeFrame ==
  << variant, params, entry, body, dt, t, h, v, m, A, fragmented,
     airburstAltitude, airburstEnergy, stepCount, iterations,
     breakupVelocity, terminal, impact, blast, outcome, calls, firstImpact,
     view, trajectory >>

\* The call up to its first await.
QuakeCall ==
  /\ pc = "quake"
  /\ IF ~Truthy(params.magnitude)
     THEN /\ quake' = [ quake EXCEPT !.promise = Some(Fulfilled(<< >>)) ]
          /\ pc' = "settled"
     ELSE /\ quake' = [ quake EXCEPT !.requests =
                          << QuakeUrl(Val(params.magnitude), params.delta,
                                      params.limit) >> ]
          /\ pc' = "fetching"
  /\ UNCHANGED quakeFrame

\* fetch settles; the call runs on to its second await.
FetchSettles ==
  /\ pc = "fetching"
  /\ \E r \in FetchOutcomes :
       IF r = "ok"
       THEN /\ quake' = [ quake EXCEPT !.fetch = Some(r) ]
            /\ pc' = "parsing"
       ELSE /\ quake' = [ quake EXCEPT !.fetch = Some(r),
                            !.promise = Some(Caught(IF r = "rejected"
                                                    THEN "TypeError"
                                                    ELSE "USGS API error")) ]
            /\ pc' = "settled"
  /\ UNCHANGED quakeFrame

\* res.json() settles; the call runs to its end.
JsonSettles ==
  /\ pc = "parsing"
  /\ \E b \in Bodies :
       quake' = [ quake EXCEPT !.body = Some(b),
                               !.promise = Some(AfterBody(b)) ]
  /\ pc' = "settled"
  /\ UNCHANGED quakeFrame

QuakeNext == QuakeCall \/ FetchSettles \/ JsonSettles

SpecQuake == QuakeInit /\ [][QuakeNext]_vars

\* ------------------------------------------------------------------------
\* MapImpact: the effect that fetches the similar earthquakes
\* (src/src/components/pages/map/MapImpact.jsx)
\* ------------------------------------------------------------------------

MapImpactFile == "src/src/components/pages/map/MapImpact.jsx"

\* Effects that issue a request, at most (bound of the model).
MaxRequests == 3

\* The dependencies of the effect as rendered: Null when there is no ground
\* impact or no magnitude, else the earthquake magnitude in hundredths.
QuakeDeps == { Null, Some(550), Some(650) }

\* What findSimilarEarthquakes resolves to for a magnitude: the list of the
\* service, or [] when the request failed.
QuakesFor(mag, ok) == IF ok THEN << [ magnitude |-> mag ] >> ELSE << >>

\* A cleanup that leaves the flag of the effect alone.
NoCleanup(inflight) == inflight

\* return () => { cancelled = true; }: the requests in flight are those of
\* effects cleaned up before, and that of the effect cleaned up now.
Cleanup(inflight) == { [ r EXCEPT !.cancelled = TRUE ] : r \in inflight }

MapInit ==
  /\ variant = MapImpactFile
  /\ params = Null
  /\ pc = "mounted"
  /\ entry = Null /\ body = Null
  /\ dt = 0 /\ t = 0 /\ h = 0 /\ v = 0 /\ m = 0 /\ A = 0
  /\ fragmented = FALSE
  /\ airburstAltitude = Null /\ airburstEnergy = Null
  /\ stepCount = 0 /\ iterations = 0 /\ breakupVelocity = Null
  /\ terminal = FALSE
  /\ impact = Null /\ blast = Null /\ outcome = Null
  /\ trajectory = << >>
  /\ calls = 1 /\ firstImpact = Null /\ quake = Null
  /\ \E d \in QuakeDeps :
       view = [ deps |-> d, effectPending |-> TRUE, similarQuakes |-> << >>,
                inflight |-> { }, requests |-> 0, current |-> 0,
                arrived |-> << >>,
                resolved |-> [ k \in 1..MaxRequests |-> Null ] ]

mapFrame ==
  << variant, params, entry, body, dt, t, h, v, m, A, fragmented,
     airburstAltitude, airburstEnergy, stepCount, iterations,
     breakupVelocity, terminal, impact, blast, outcome, calls, firstImpact,
     quake, trajectory >>

\* A render with changed dependencies is committed; React has run the
\* effects of the render before.
Rerender ==
  /\ pc = "mounted"
  /\ ~view.effectPending
  /\ view.requests < MaxRequests
  /\ \E d \in QuakeDeps \ { view.deps } :
       view' = [ view EXCEPT !.deps = d, !.effectPending = TRUE ]
  /\ UNCHANGED pc
  /\ UNCHANGED mapFrame

\* The effects of the committed render run: the cleanup of the effect
\* before, then fetchQuakes up to its return or its await.
RunEffect ==
  /\ pc = "mounted"
  /\ view.effectPending
  /\ IF view.deps = Null
     THEN view' = [ view EXCEPT !.effectPending = FALSE,
                                !.inflight = Cleanup(view.inflight),
                                !.current = 0,
                                !.similarQuakes = << >> ]
     ELSE view' = [ view EXCEPT !.effectPending = FALSE,
                                !.requests = view.requests + 1,
                                !.current = view.requests + 1,
                                !.inflight = Cleanup(view.inflight) \cup
                                  { [ id |-> view.requests + 1,
                                      mag |-> Val(view.deps),
                                      cancelled |-> FALSE ] } ]
  /\ UNCHANGED pc
  /\ UNCHANGED mapFrame

\* A request settles, in any order: fetchQuakes goes on after its await.
QuakesArrive ==
  /\ view # Null
  /\ \E r \in view.inflight, ok \in BOOLEAN :
       view' = [ view EXCEPT !.inflight = view.inflight \ { r },
                   !.resolved[r.id] = Some(QuakesFor(r.mag, ok)),
                   !.arrived = Append(view.arrived, r.id),
                   !.similarQuakes = IF r.cancelled THEN view.similarQuakes
                                     ELSE QuakesFor(r.mag, ok) ]
  /\ UNCHANGED pc
  /\ UNCHANGED mapFrame

\* The component unmounts: the cleanup of the last effect that ran.
Unmount ==
  /\ pc = "mounted"
  /\ view' = [ view EXCEPT !.effectPending = FALSE,
                           !.inflight = Cleanup(view.inflight) ]
  /\ pc' = "unmounted"
  /\ UNCHANGED mapFrame

MapNext == Rerender \/ RunEffect \/ QuakesArrive \/ Unmount

SpecMap == MapInit /\ [][MapNext]_vars

\* ------------------------------------------------------------------------
\* The Home panel and the conversion of its values in MapImpact
\* (src/src/components/pages/home/home.jsx; MapImpact.jsx, which came with
\* the services variant of the kernel, and src/unnamed/part_001, which came
\* with part_005).  Velocities in m/s, densities in kg/m^3, factors in 1/10.
\* ------------------------------------------------------------------------

BASE_DENSITY == 3000

\* MATERIALS[key].factor, in 1/10.
MaterialFactor(key) ==
  CASE key = "ice" -> 5 [] key = "rock" -> 10 [] key = "metal" -> 20

\* Velocities typed into the panel (min 1); 20000 is the default.
HomeVelocities ==
  { 1, 2999, 3000, 5000, 11200, 12265, 12266, 20000, 30000 }

\* Densities typed into the panel.
HomeDensities == { 800, 1499, 5001 }

\* Positions of the density slider, in 1/10 (0.5 to 2, step 0.1).
HomeFactors == { 5, 14, 20 }

\* neoParams.vInfinity of MapImpact, in m/s, for the velocity prop.
VInfinityOf(var, velocity) ==
  IF var = Part005 /\ velocity < 3000
  THEN velocity
  ELSE Max(5000, Isqrt(Max(0, velocity * velocity
                                - V_ESCAPE_EARTH * V_ESCAPE_EARTH)))

\* neoParams.material of MapImpact for the density prop.
MaterialObj(density) ==
  IF density < 1500
  THEN [ name |-> "Cometary (ice)", density |-> density, strength |-> 100000 ]
  ELSE IF density > 5000
  THEN [ name |-> "Metallic", density |-> density, strength |-> 2000000 ]
  ELSE [ name |-> "Rocky", density |-> density, strength |-> 200000 ]

HomeInit ==
  /\ variant \in Variants
  /\ params = [ velocity |-> 20000, density |-> BASE_DENSITY,
                material |-> "rock" ]
  /\ pc = "home"
  /\ entry = Null /\ body = Null
  /\ dt = 0 /\ t = 0 /\ h = 0 /\ v = 0 /\ m = 0 /\ A = 0
  /\ fragmented = FALSE
  /\ airburstAltitude = Null /\ airburstEnergy = Null
  /\ stepCount = 0 /\ iterations = 0 /\ breakupVelocity = Null
  /\ terminal = FALSE
  /\ impact = Null /\ blast = Null /\ outcome = Null
  /\ trajectory = << >>
  /\ calls = 1 /\ firstImpact = Null /\ quake = Null
  /\ view = Null

homeFrame ==
  << variant, pc, body, dt, t, h, v, m, A, fragmented, airburstAltitude,
     airburstEnergy, stepCount, iterations, breakupVelocity, terminal,
     impact, blast, outcome, calls, firstImpact, quake, trajectory >>

\* onChange of the velocity input.
SetVelocity ==
  /\ pc = "home"
  /\ \E vel \in HomeVelocities \ { params.velocity } :
       params' = [ params EXCEPT !.velocity = vel ]
  /\ view' = Null /\ entry' = Null
  /\ UNCHANGED homeFrame

\* onChange of the density input.
SetDensity ==
  /\ pc = "home"
  /\ \E d \in HomeDensities \ { params.density } :
       params' = [ params EXCEPT !.density = d ]
  /\ view' = Null /\ entry' = Null
  /\ UNCHANGED homeFrame

\* onChange of the material select.
SelectMaterial ==
  /\ pc = "home"
  /\ \E key \in { "ice", "rock", "metal" } :
       /\ key # params.material
            \/ params.density # (BASE_DENSITY * MaterialFactor(key)) \div 10
       /\ params' = [ params EXCEPT !.material = key,
                        !.density =
                          (BASE_DENSITY * MaterialFactor(key)) \div 10 ]
  /\ view' = Null /\ entry' = Null
  /\ UNCHANGED homeFrame

\* onChange of the density slider.
SlideDensity ==
  /\ pc = "home"
  /\ \E f \in HomeFactors :
       /\ params.density # (BASE_DENSITY * f) \div 10
       /\ params' = [ params EXCEPT !.density = (BASE_DENSITY * f) \div 10 ]
  /\ view' = Null /\ entry' = Null
  /\ UNCHANGED homeFrame

\* MapImpact renders with the values of the panel: neoParams, and the
\* entry conditions assessNEOImpact computes from them.
RenderMapImpact ==
  /\ pc = "home"
  /\ view = Null
  /\ view' = [ vInfinity |-> VInfinityOf(variant, params.velocity),
               material |-> MaterialObj(params.density),
               densityOriginal |-> params.density ]
  /\ entry' = calculateEntryConditions(
                variant, VInfinityOf(variant, params.velocity),
                DEFAULT_ENTRY_ANGLE)
  /\ UNCHANGED params
  /\ UNCHANGED homeFrame

HomeNext ==
  SetVelocity \/ SetDensity \/ SelectMaterial \/ SlideDensity
              \/ RenderMapImpact

SpecHome == HomeInit /\ [][HomeNext]_vars

\* ------------------------------------------------------------------------
\* Calls that record the trajectory
\* ------------------------------------------------------------------------

\* The calls tried with recordTrajectory: the coarse step, the smaller
\* bodies, steep and grazing, with no recordInterval (0), 1 and 7.
RecordParams ==
  { [ vInfinity |-> p.vInfinity, diameter |-> p.diameter,
      material |-> p.material, entryAngle |-> p.entryAngle, dt |-> p.dt,
      recordTrajectory |-> TRUE, recordInterval |-> k ] :
      p \in { c \in Params : /\ c.dt = 490 /\ c.diameter <= 25
                               /\ c.entryAngle \in {1, 90}
                               /\ c.vInfinity \in {0, 15000} },
      k \in {0, 1, 7} }

RecordInit ==
  /\ variant \in Variants
  /\ params \in RecordParams
  /\ pc = "call"
  /\ entry = Null /\ body = Null
  /\ dt = 0 /\ t = 0 /\ h = 0 /\ v = 0 /\ m = 0 /\ A = 0
  /\ fragmented = FALSE
  /\ airburstAltitude = Null /\ airburstEnergy = Null
  /\ stepCount = 0 /\ iterations = 0 /\ breakupVelocity = Null
  /\ terminal = FALSE
  /\ impact = Null /\ blast = Null /\ outcome = Null
  /\ trajectory = << >>
  /\ calls = 1 /\ firstImpact = Null /\ quake = Null /\ view = Null

SpecRecord == RecordInit /\ [][Next]_vars

\* ------------------------------------------------------------------------
\* Properties
\* ------------------------------------------------------------------------

\* integrateTrajectory has returned its summary.
Returned == impact # Null

\* The run was ended by the flight-time cutoff, above the ground and with
\* mass left.
CutOffRun ==
  Returned /\ t > MaxFlightTime /\ impact.altitude > 0 /\ impact.mass > 0

Decelerated == << "Decelerated to low velocity in atmosphere" >>

\* C1: outcome follows the fixed priority over the final summary: mass 0
\* gives complete ablation; otherwise airburst gives 'Airburst at X km
\* altitude'; otherwise groundImpact gives 'Ground impact at V m/s with F%
\* of original mass'; otherwise 'Decelerated to low velocity in atmosphere'.
\* One of the four is produced, and an earlier case wins over a later one.
OutcomeByPriority ==
  pc = "done" =>
    /\ impact.mass = 0 =>
         outcome = << "Complete ablation in atmosphere" >>
    /\ impact.mass # 0 /\ impact.airburst =>
         outcome = << "Airburst at",
                      KmToFixed1(Val(impact.airburstAltitude)),
                      "km altitude" >>
    /\ impact.mass # 0 /\ ~impact.airburst /\ impact.groundImpact =>
         outcome = << "Ground impact at", SpeedToFixed0(impact.velocity),
                      "m/s with", PercentToFixed1(impact.massFraction),
                      "% of original mass" >>
    /\ impact.mass # 0 /\ ~impact.airburst /\ ~impact.groundImpact =>
         outcome = Decelerated
    /\ outcome[1] \in { "Complete ablation in atmosphere", "Airburst at",
                        "Ground impact at", Decelerated[1] }

\* C1's case: a body that broke up, then ablated completely above the
\* ground: two cases apply and the earlier one is reported.
AblatedAfterAirburst ==
  /\ pc = "done"
  /\ impact.mass = 0
  /\ impact.airburst
  /\ outcome = << "Complete ablation in atmosphere" >>

\* C2: in the summary of a run, groundImpact (final altitude <= 0) and
\* complete ablation (final mass = 0) are never both true.
GroundImpactExcludesAblation ==
  Returned => ~(impact.groundImpact /\ impact.mass = 0)

\* C3: impact.airburst is true only if impact.airburstEnergy is non-null
\* and positive and, at the step of the breakup, the speed and the entry
\* speed were above 1000 m/s.
AirburstNeedsEnergyAndSpeed ==
  Returned /\ impact.airburst =>
    /\ impact.airburstEnergy # Null
    /\ Val(impact.airburstEnergy) > 0
    /\ breakupVelocity # Null
    /\ Val(breakupVelocity) > 100000
    /\ initialVelocity > 100000

\* C3's case: a run that returned an airburst.
AirburstReturned == Returned /\ impact.airburst

\* C4: the mass is never negative and never grows from one step to the
\* next, so the final massFraction lies in [0, 1] (here in 1/1000000).
MassNeverGrows ==
  /\ [](m >= 0)
  /\ [](Returned => impact.massFraction >= 0 /\ impact.massFraction <= 1000000)
  /\ [][pc = "loop" => m' <= m]_vars

\* C4's case: a run that returned with part of its mass ablated.
PartlyAblated ==
  Returned /\ impact.mass > 0 /\ impact.mass < body.mass

\* C5: when a run ends with ground contact and airburstAltitude is set,
\* airburstAltitude is strictly greater than the final altitude.
BreakupAboveFinalAltitude ==
  Returned /\ impact.groundImpact /\ impact.airburstAltitude # Null =>
    Val(impact.airburstAltitude) > impact.altitude

\* C5's case: a body that broke up in the very step that took it to the
\* ground.
BrokeUpInLastStep ==
  /\ Returned
  /\ impact.groundImpact
  /\ impact.airburstAltitude # Null
  /\ Val(impact.airburstAltitude) - Descent(v) = impact.altitude

\* C6: time grows by dt every iteration and the loop is left at the latest
\* on the first step whose time exceeds the cutoff: the final time is at
\* most cutoff + dt and the iterations are at most floor(cutoff/dt) + 1.
LoopBounded ==
  pc # "call" =>
    /\ t = iterations * dt
    /\ pc = "loop" => t <= MaxFlightTime
    /\ t <= MaxFlightTime + dt
    /\ iterations <= (MaxFlightTime \div dt) + 1

\* C6's case: a run that took every iteration the cutoff allows.
RanToCutOff ==
  pc = "left" /\ t > MaxFlightTime
              /\ iterations = (MaxFlightTime \div dt) + 1

\* C7 as stated: a run ended by the cutoff is reported as 'Decelerated to
\* low velocity in atmosphere', whatever else happened.
CutOffIsDecelerated ==
  pc = "done" /\ CutOffRun => outcome = Decelerated

\* C7 amended: a run ended by the cutoff is reported as 'Decelerated to low
\* velocity in atmosphere' unless impact.airburst is true, and then as
\* 'Airburst at X km altitude'.
CutOffIsDeceleratedOrAirburst ==
  pc = "done" /\ CutOffRun =>
    IF impact.airburst THEN outcome[1] = "Airburst at"
                       ELSE outcome = Decelerated

\* C7's case: a run ended by the cutoff after the body broke up.
CutOffAfterAirburst == pc = "done" /\ CutOffRun /\ impact.airburst

\* C8: blast is non-null exactly when impact.airburst is true and
\* impact.airburstEnergy is set, and then it is estimateBlastEffects of
\* airburstEnergy and airburstAltitude; on every ground impact it is null.
BlastOnlyForAirburst ==
  pc = "done" =>
    /\ blast # Null <=> /\ impact.airburst
                        /\ impact.airburstEnergy # Null
                        /\ Val(impact.airburstEnergy) # 0
    /\ blast # Null =>
         blast = estimateBlastEffects(variant, Val(impact.airburstEnergy),
                                      Val(impact.airburstAltitude))
    /\ impact.groundImpact => blast = Null

\* C8's case: an assessment with blast effects.
BlastEstimated == pc = "done" /\ blast # Null /\ blast.severity # "none"

\* C9: with energy <= 0 or altitude <= 0 every radius of the result
\* (window, structural, severe and extreme) is 0 and severity is 'none';
\* severity is 'none' in no other case.
DegenerateBlastAllZero ==
  pc = "blasted" =>
    IF params.energy <= 0 \/ params.altitude <= 0
    THEN /\ blast.severity = "none"
         /\ blast.radiusWindowBreak = 0
         /\ blast.radiusStructuralDamage = 0
         /\ blast.radiusSevereDestruction = 0
         /\ "radiusExtreme" \in DOMAIN blast
         /\ blast.radiusExtreme = 0
    ELSE blast.severity # "none"

\* C10: for energy > 0 and altitude > 0 the severity follows from the final
\* radii: 'catastrophic' if radiusSevereDestruction > 10 km; else 'major'
\* if it is > 3 km; else 'significant' if radiusStructuralDamage > 10 km;
\* else 'moderate' if radiusWindowBreak > 20 km; else 'minor'.
SeverityByPriority ==
  pc = "blasted" /\ params.energy > 0 /\ params.altitude > 0 =>
    blast.severity =
      IF blast.radiusSevereDestruction > 10000 THEN "catastrophic"
      ELSE IF blast.radiusSevereDestruction > 3000 THEN "major"
      ELSE IF blast.radiusStructuralDamage > 10000 THEN "significant"
      ELSE IF blast.radiusWindowBreak > 20000 THEN "moderate"
      ELSE "minor"

\* C10's case: a blast whose severe-destruction radius passes both
\* thresholds, classified by the first.
CatastrophicBlast ==
  /\ pc = "blasted"
  /\ blast.severity = "catastrophic"
  /\ blast.radiusSevereDestruction > 10000

\* C11: the radiusWindowBreak returned is at most 300 km for every energy
\* and altitude; the cap is applied to the attenuated radius, the severity
\* is classified from the capped radius, and no other radius is capped.
WindowRadiusCapped ==
  pc = "blasted" =>
    /\ blast.radiusWindowBreak <= 300000
    /\ params.energy > 0 /\ params.altitude > 0 =>
         LET raw(p) == Attenuated(rangeForOverpressure(p, params.energy,
                                                       params.altitude),
                                  params.altitude)
         IN  /\ blast.radiusWindowBreak =
                  Min(raw(WindowOverpressure(variant)), 300000)
             /\ blast.radiusStructuralDamage = raw(20000)
             /\ blast.radiusSevereDestruction = raw(35000)
             /\ blast.radiusExtreme = raw(100000)
             /\ blast.severity = Severity(blast.radiusWindowBreak,
                                          blast.radiusStructuralDamage,
                                          blast.radiusSevereDestruction)

\* C11's case: a blast whose window radius is held at the cap while its
\* structural-damage radius lies beyond 300 km.
CapAppliedToWindowOnly ==
  /\ pc = "blasted"
  /\ blast.severity # "none"
  /\ Attenuated(rangeForOverpressure(WindowOverpressure(variant),
                                     params.energy, params.altitude),
                params.altitude) > 300000
  /\ blast.radiusWindowBreak = 300000
  /\ blast.radiusStructuralDamage > 300000

\* C12: for vInfinity < 3 km/s the entry velocity is vInfinity * 1000 m/s,
\* and from 3 km/s on, 3 included, it is sqrt(vInfinity^2 + 11.2^2) * 1000
\* m/s; vInfinity and the angle (45 when absent) are returned unchanged.
EntryVelocityByThreshold ==
  pc = "entered" =>
    /\ entry.velocity =
         IF params.vInfinity < 3000
         THEN params.vInfinity * 100
         ELSE Isqrt(params.vInfinity * params.vInfinity
                    + V_ESCAPE_EARTH * V_ESCAPE_EARTH) * 100
    /\ entry.vInfinity = params.vInfinity
    /\ entry.angle = IF params.entryAngleDeg = Null THEN 45
                     ELSE Val(params.entryAngleDeg)

\* The density and strength the documentation gives for a preset name.
DocumentedPreset(n) ==
  CASE n = "stony" -> [density |-> 3000, strength |-> 200000]
    [] n = "iron"  -> [density |-> 7800, strength |-> 2000000]
    [] n = "comet" -> [density |-> 800,  strength |-> 100000]

\* C13: with material given as 'stony', 'iron' or 'comet', or omitted
\* (then 'stony'), the body has that preset's density and strength, and
\* body.mass and body.strength are finite positive numbers.
PresetNameGivesBody ==
  pc = "bodied" /\ params.material.kind # "object" =>
    LET n == IF params.material.kind = "absent" THEN "stony"
             ELSE params.material.name
    IN  /\ body.density = Some(DocumentedPreset(n).density)
        /\ body.strength = Some(DocumentedPreset(n).strength)
        /\ body.mass # Null
        /\ Val(body.mass) > 0

\* The Tunguska-like call: 15 km/s, 50 m, stony (3000 kg/m^3, 200 kPa),
\* 45 degrees, default options.
TunguskaParams ==
  [ vInfinity  |-> 15000,
    diameter   |-> 50,
    material   |-> [name |-> "Rocky", density |-> 3000, strength |-> 200000],
    entryAngle |-> 45,
    dt         |-> 0 ]

\* C14: the Tunguska-like scenario yields an outcome containing 'Airburst',
\* with airburstAltitude between 5000 and 12000 m and airburstEnergy
\* between 3 and 20 Mt.
TunguskaIsAirburst ==
  pc = "done" /\ params = TunguskaParams =>
    /\ outcome[1] = "Airburst at"
    /\ impact.airburstAltitude # Null
    /\ Val(impact.airburstAltitude) >= 500000
    /\ Val(impact.airburstAltitude) <= 1200000
    /\ impact.airburstEnergy # Null
    /\ Val(impact.airburstEnergy) >= 3000000
    /\ Val(impact.airburstEnergy) <= 20000000

Mapped ==
  /\ quake.body # Null
  /\ Val(quake.body).kind = "collection"
  /\ ~MapThrows(Val(quake.body).features)

\* C16: findSimilarEarthquakes never rejects: it resolves to [] without a
\* request when magnitude is falsy, and to [] when the fetch rejects, the
\* response is not ok, the body cannot be parsed, the body has no features,
\* or mapping a feature throws; otherwise it resolves to one {id, place,
\* time, magnitude, url, energyJoules} entry per returned feature.
QuakeNeverRejects ==
  pc = "settled" =>
    /\ Val(quake.promise).state = "fulfilled"
    /\ ~Truthy(params.magnitude) =>
         quake.requests = << >> /\ Val(quake.promise).value = << >>
    /\ quake.fetch \in { Some("rejected"), Some("not ok") } =>
         Val(quake.promise).value = << >>
    /\ ( /\ quake.body # Null
         /\ \/ Val(quake.body).kind \in { "unparsable", "null", "no features" }
            \/ /\ Val(quake.body).kind = "collection"
               /\ MapThrows(Val(quake.body).features) ) =>
         Val(quake.promise).value = << >>
    /\ Mapped =>
         /\ Len(Val(quake.promise).value) = Len(Val(quake.body).features)
         /\ \A i \in 1..Len(Val(quake.body).features) :
              /\ DOMAIN Val(quake.promise).value[i] =
                   { "id", "place", "time", "magnitude", "url",
                     "energyJoules" }
              /\ Val(quake.promise).value[i].id =
                   Val(quake.body).features[i].id
              /\ Val(quake.promise).value[i].magnitude =
                   Val(Val(quake.body).features[i].properties).mag

\* C16's case: a reply whose second feature has no properties was mapped
\* and the error caught.
QuakeMapThrew ==
  /\ pc = "settled"
  /\ quake.body # Null
  /\ Val(quake.body).kind = "collection"
  /\ Len(Val(quake.body).features) = 2
  /\ Val(quake.body).features[1].properties # Null
  /\ Val(quake.body).features[2].properties = Null
  /\ Val(quake.promise).state = "fulfilled"

\* C17: the fragmentation transition fires at most once per run: once
\* fragmented is true it stays true, the area has been multiplied by the
\* fragmentation multiplier exactly once, and airburstAltitude and
\* airburstEnergy are not modified by any later step.
FragmentsAtMostOnce ==
  /\ [](pc \in {"loop", "left", "returned", "done"} =>
          A = IF fragmented THEN body.area * DEFAULT_FRAG_MULT
                            ELSE body.area)
  /\ [][fragmented =>
          /\ fragmented'
          /\ A' = A
          /\ airburstAltitude' = airburstAltitude
          /\ airburstEnergy' = airburstEnergy]_vars

\* C17's case: a body that broke up above 20 km flew on for ten steps or
\* more, at a pressure above its strength at the end.
FlewOnAfterBreakup ==
  /\ pc = "loop"
  /\ fragmented
  /\ Val(airburstAltitude) > 2000000
  /\ iterations >= 10
  /\ v < Val(breakupVelocity)
  /\ BreakupConditionRepeated(dynamicPressure(atmosphericDensity(h), v))

\* C18: whenever the fragmentation transition fires, both airburstAltitude
\* and airburstEnergy are recorded, so that in the returned summary
\* airburstAltitude is non-null if and only if airburstEnergy is non-null.
BreakupRecordsBoth ==
  Returned =>
    (impact.airburstAltitude # Null <=> impact.airburstEnergy # Null)

\* A loop iteration is taken from a state whose last iteration took the
\* terminal-velocity branch.
StepInTerminalRegime == terminal /\ iterations' = iterations + 1

\* C19: in part_005, once a step has taken the terminal-velocity branch the
\* body descends at constant speed: the speed is the same at every later
\* step until ground contact.
ConstantTerminalSpeed ==
  [][StepInTerminalRegime => v' = v]_vars

\* C20: in part_005 the terminal-velocity regime is absorbing: once a step
\* takes the terminal-velocity branch every later step takes it too, the
\* speed stays at min(v_t, 200) <= 200 m/s, and neither the fragmentation
\* transition nor ablation fires in a later step.
TerminalRegimeAbsorbing ==
  /\ [](terminal => variant = Part005 /\ v <= 20000)
  /\ [][StepInTerminalRegime =>
          /\ terminal'
          /\ v' = TerminalVelocity(m', atmosphericDensity(h), A')
          /\ v' <= 20000
          /\ fragmented' = fragmented
          /\ airburstAltitude' = airburstAltitude
          /\ A' = A
          /\ v <= 300000
          /\ m' = m]_vars

\* C20's case: an unbroken body in the terminal regime for ten steps or
\* more, at a pressure above its strength.
UnbrokenInTerminalRegime ==
  /\ pc = "loop"
  /\ terminal
  /\ ~fragmented
  /\ iterations >= 10
  /\ dynamicPressure(atmosphericDensity(h), v) >= body.strength

\* C21: in every step of integrateTrajectory whose speed at the start of the
\* step is at or below the 3000 m/s ablation threshold, ablation is skipped
\* and the mass is left unchanged by that step.
NoAblationBelowThreshold ==
  [][iterations' = iterations + 1 /\ v <= 300000 => m' = m]_vars

\* C22: in part_005 complete ablation is reachable only if the entry speed
\* exceeded 3000 m/s: a run with positive initial mass whose entry speed is
\* <= 3000 m/s never changes the mass at any step and never ends with mass 0.
SlowEntryKeepsMass ==
  variant = Part005 /\ entry # Null /\ entry.velocity <= 300000
                    /\ body.mass > 0 =>
    /\ m = body.mass
    /\ Returned => impact.mass = body.mass /\ impact.mass > 0
    /\ outcome # Some("Complete ablation in atmosphere")

\* C22's case: a body entered at 2.9 km/s, broke up and came to the ground
\* with its mass.
SlowEntryLanded ==
  /\ variant = Part005
  /\ pc = "done"
  /\ entry.velocity = 290000
  /\ impact.airburstAltitude # Null
  /\ impact.groundImpact
  /\ impact.mass = body.mass

\* C23: for an entry angle in (0, 90] degrees the altitude never increases
\* from one step to the next, and it strictly decreases in every step whose
\* updated speed is > 0.
AltitudeNeverIncreases ==
  [][iterations' = iterations + 1 =>
       /\ h' <= h
       /\ v' > 0 => h' < h]_vars

\* C24: at every step the speed is at most the speed of the previous step,
\* so the speed never exceeds the entry speed and the final impactEnergy
\* never exceeds the kinetic energy at entry, for every entry speed >= 0.
SpeedNeverGrows ==
  /\ [][iterations' = iterations + 1 => v' <= v]_vars
  /\ [](entry # Null => v <= entry.velocity)
  /\ [](Returned =>
          impact.impactEnergy <= KineticEnergy(body.mass, entry.velocity))

StaleQuakesDropped ==
  /\ [][\A r \in view.inflight :
          r.cancelled /\ r \notin view'.inflight =>
            view'.similarQuakes = view.similarQuakes]_vars
  /\ [](pc = "mounted" /\ ~view.effectPending /\ view.inflight = { } =>
          IF view.deps = Null
          THEN view.similarQuakes = << >>
          ELSE /\ view.resolved[view.current] = Some(view.similarQuakes)
               /\ view.similarQuakes \in
                    { QuakesFor(Val(view.deps), TRUE), << >> })

\* C27's case: the first request resolved after the second, which was for
\* another magnitude, and the result of the second is shown.
LateQuakesDropped ==
  /\ pc = "mounted"
  /\ view.arrived = << 2, 1 >>
  /\ view.inflight = { }
  /\ view.deps # Null
  /\ view.resolved[1] # Some(<< >>)
  /\ view.resolved[1] # view.resolved[2]
  /\ view.similarQuakes = QuakesFor(Val(view.deps), TRUE)

\* C28: for every velocity set in the Home panel and passed to MapImpact,
\* the entry speed the kernel integrates from equals that velocity (here to
\* the metre per second): deriving vInfinity from the velocity and
\* recomputing the entry speed is a round trip.
VelocityRoundTrip ==
  pc = "home" /\ view # Null =>
    /\ entry.velocity \div 100 - params.velocity <= 1
    /\ params.velocity - entry.velocity \div 100 <= 1

\* The strength of the material class of a choice of the Home panel, in Pa.
ClassStrength(key) ==
  CASE key = "ice" -> 100000 [] key = "rock" -> 200000
    [] key = "metal" -> 2000000

\* C29: for each material choice in the Home panel the strength MapImpact
\* passes to the kernel is that of the matching class: 'Comet (Ice)'
\* (density 3000 * 0.5) gives 1e5 Pa, 'Rocky Asteroid' (3000) 2e5 Pa and
\* 'Metallic Asteroid' (3000 * 2) 2e6 Pa.
MaterialChoiceGivesStrength ==
  /\ pc = "home"
  /\ view # Null
  /\ params.density = (BASE_DENSITY * MaterialFactor(params.material)) \div 10
  => view.material.strength = ClassStrength(params.material)

\* C30: with recordTrajectory true the trajectory starts with the entry
\* state (time 0, altitude 100000 m), ends with the final state reported in
\* impact, and has strictly increasing sample times: no state is recorded
\* twice, whatever recordInterval is and whichever way the loop ends.
TrajectoryStrictlyTimed ==
  Returned /\ RecordTrajectory =>
    /\ trajectory[1].time = 0
    /\ trajectory[1].altitude = H_ENTRY
    /\ trajectory[Len(trajectory)].altitude = impact.altitude
    /\ trajectory[Len(trajectory)].velocity = impact.velocity
    /\ trajectory[Len(trajectory)].mass = impact.mass
    /\ \A i \in 1..(Len(trajectory) - 1) :
         trajectory[i].time < trajectory[i + 1].time

====
